---------------------------- MODULE Spec2Model ----------------------------
(***************************************************************************)
(* A state-machine model of the kilo-rust editor core (src/src/editor.rs)  *)
(* driven by the read-apply-render loop of src/src/main.rs.                *)
(*                                                                         *)
(* One step of the loop reads one decoded key, applies it with             *)
(* process_keypress or move_cursor and then calls refresh_screen.  The     *)
(* save prompt is an inner loop of the same shape (one raw byte, then      *)
(* refresh_screen).  A Rust panic (index out of bounds, unwrap of an Err)  *)
(* ends the program: pc = "panic", with the fields as they were when the   *)
(* panic happened.                                                         *)
(*                                                                         *)
(* Row (row.rs) and Position (position.rs) are not part of the sources at  *)
(* hand; their operations are written from the design document.  Where     *)
(* the document leaves an out-of-range call open (split or                 *)
(* render_position beyond the end of a row) both a panic and the clamped   *)
(* result are outcomes of the model.                                       *)
(*                                                                         *)
(* draw_status_bar and the banner of draw_rows only append bytes to the    *)
(* frame; their padding arithmetic presumes a terminal wider than the      *)
(* status text and is not part of this model, whose windows are a few      *)
(* columns wide so that scrolling happens within small buffers.            *)
(***************************************************************************)
EXTENDS Integers, Sequences, FiniteSets, TLC

\* ------------------------------------------------------------------ bounds
MaxRows == 3        \* Enter is not taken beyond this many rows; files have fewer
MaxChars == 2       \* bytes in all rows of a file, and after a Char or a Save
MaxWin == 2         \* windows are w columns by w rows, w in 1..MaxWin
MaxName == 1        \* bytes collected by the save prompt

\* --------------------------------------------------------------- constants
LF == 10
TAB == 9
TAB_STOP == 4
CR == 13
BS == 8
ESC == 27

\* bytes a Char key or a line of the input file can carry
Chars == {97, TAB}
\* printable bytes typed into the save prompt
NameChars == {115}
\* "[NO NAME]"
NO_NAME == <<91, 78, 79, 32, 78, 65, 77, 69, 93>>
\* the path given as the first command line argument
FileArg == <<102>>

Min(a, b) == IF a < b THEN a ELSE b

\* ---------------------------------------------------------------- keys
Key(k, c) == [k |-> k, c |-> c]
Enter == Key("Enter", 0)
BackSpace == Key("BackSpace", 0)
PageUp == Key("PageUp", 0)
PageDown == Key("PageDown", 0)
End == Key("End", 0)
ArrowLeft == Key("ArrowLeft", 0)
ArrowRight == Key("ArrowRight", 0)
ArrowUp == Key("ArrowUp", 0)
ArrowDown == Key("ArrowDown", 0)
Null == Key("Null", 0)
CtrlQ == Key("Ctrl", 81)
CtrlS == Key("Ctrl", 83)
CtrlL == Key("Ctrl", 76)
CharKeys == {Key("Char", c) : c \in Chars}
ArrowKeys == {ArrowLeft, ArrowRight, ArrowUp, ArrowDown}
EditorKey == CharKeys \cup ArrowKeys \cup
             {Enter, BackSpace, PageUp, PageDown, End, Null, CtrlQ, CtrlS, CtrlL}

\* ---------------------------------------------------------------- Position
Position(x, y) == [x |-> x, y |-> y]
\* Position -= Position on unsigned fields; move_cursor subtracts a row at
\* row 0 and reads the row above with saturating_sub, so the fields stop at 0
PosSub(p, q) == [x |-> IF p.x >= q.x THEN p.x - q.x ELSE 0,
                 y |-> IF p.y >= q.y THEN p.y - q.y ELSE 0]

\* ---------------------------------------------------------------- Row
\* Rows are their chars; render is recomputed from chars (Row::update).
RECURSIVE RenderFrom(_, _)
RenderFrom(chars, out) ==
    IF chars = <<>> THEN out
    ELSE IF Head(chars) = TAB
         THEN LET pad == TAB_STOP - (Len(out) % TAB_STOP)
              IN RenderFrom(Tail(chars), out \o [i \in 1..pad |-> 32])
         ELSE RenderFrom(Tail(chars), Append(out, Head(chars)))

Render(chars) == RenderFrom(chars, <<>>)

RECURSIVE RenderPosFrom(_, _, _)
RenderPosFrom(chars, n, rx) ==
    IF n = 0 \/ chars = <<>> THEN rx
    ELSE LET step == IF Head(chars) = TAB THEN TAB_STOP - (rx % TAB_STOP) ELSE 1
         IN RenderPosFrom(Tail(chars), n - 1, rx + step)

\* render_position(char_x) for char_x within the row
RenderPosition(chars, cx) == RenderPosFrom(chars, cx, 0)

\* Row::insert_char(byte, at), at clamped to [0, len]
RowInsertChar(chars, c, at) ==
    LET a == Min(at, Len(chars))
    IN SubSeq(chars, 1, a) \o <<c>> \o SubSeq(chars, a + 1, Len(chars))

\* Row::delete_char(at), nothing removed when at is out of range
RowDeleteChar(chars, at) ==
    IF at < Len(chars)
    THEN SubSeq(chars, 1, at) \o SubSeq(chars, at + 2, Len(chars))
    ELSE chars

\* Row::split(at): the part kept in place and the part returned
RowSplitLeft(chars, at) == SubSeq(chars, 1, Min(at, Len(chars)))
RowSplitRight(chars, at) == SubSeq(chars, Min(at, Len(chars)) + 1, Len(chars))

\* Row::append(other)
RowAppend(chars, other) == chars \o other

\* ---------------------------------------------------------------- helpers
RECURSIVE SumLen(_)
SumLen(rs) == IF rs = <<>> THEN 0 ELSE Len(Head(rs)) + SumLen(Tail(rs))

RECURSIVE Flatten(_)
Flatten(rs) == IF rs = <<>> THEN <<>> ELSE Head(rs) \o Flatten(Tail(rs))

SeqsUpTo(S, n) == UNION {[1..k -> S] : k \in 0..n}

\* the files main can be started on: lines as BufReader::lines yields them
InputFiles == {f \in SeqsUpTo(SeqsUpTo(Chars, MaxChars), MaxRows - 1) :
                 SumLen(f) <= MaxChars}

Msg(text, arg) == [text |-> text, arg |-> arg]
NoWrite == [done |-> FALSE, name |-> <<>>, content |-> <<>>]
FileWrite(name, content) == [done |-> TRUE, name |-> name, content |-> content]

VARIABLES
    pc,                      \* "start", "input", "prompt", "exit", "panic"
    rows,                    \* Editor.rows, each row its chars
    cursor_position,         \* Editor.cursor_position
    render_cursor_position,  \* Editor.render_cursor_position
    offset,                  \* Editor.offset
    window_size,             \* Editor.window_size
    status_message,          \* Editor.status_message
    current_file_name,       \* Editor.current_file_name
    is_dirty,                \* Editor.is_dirty
    e_key_history,           \* Editor.e_key_history, its last element
    ret_buf,                 \* save_prompt's ret_buf while the prompt runs
    written,                 \* the file created and written by the latest step
    last_cmd                 \* the latest command applied: "none", "Quit", "move", "other"

vars == <<pc, rows, cursor_position, render_cursor_position, offset, window_size,
          status_message, current_file_name, is_dirty, e_key_history, ret_buf,
          written, last_cmd>>

\* the editor as one record, the form the operations below work on
Self == [rows |-> rows,
         cursor_position |-> cursor_position,
         render_cursor_position |-> render_cursor_position,
         offset |-> offset,
         window_size |-> window_size,
         status_message |-> status_message,
         current_file_name |-> current_file_name,
         is_dirty |-> is_dirty,
         e_key_history |-> e_key_history,
         panic |-> FALSE,
         underflow |-> FALSE]

Panic(s) == [s EXCEPT !.panic = TRUE]

\* ---------------------------------------------------------------- rendering
\* render_position as scroll and backspace call it: within the row its value,
\* beyond the end of the row either a panic or the value at the end of the row
RenderPositionOutcomes(chars, cx) ==
    IF cx <= Len(chars)
    THEN {[panic |-> FALSE, rx |-> RenderPosition(chars, cx)]}
    ELSE {[panic |-> TRUE, rx |-> 0],
          [panic |-> FALSE, rx |-> RenderPosition(chars, Len(chars))]}

\* scroll with the cursor row compared by > against the end of the window
scroll_late(s, rx) ==
    LET cy == s.cursor_position.y
        wx == s.window_size.x
        wy == s.window_size.y
        oy1 == IF cy < s.offset.y THEN cy ELSE s.offset.y
        downY == cy > oy1 + wy
        oy2 == IF downY THEN cy - wy + 1 ELSE oy1
        ox1 == IF rx < s.offset.x THEN rx ELSE s.offset.x
        downX == rx >= ox1 + wx
        ox2 == IF downX THEN rx - wx + 1 ELSE ox1
        under == (downY /\ cy < wy) \/ (downX /\ rx < wx)
    IN [s EXCEPT !.render_cursor_position = Position(rx, s.render_cursor_position.y),
                 !.offset = Position(ox2, oy2),
                 !.underflow = under]

\* Editor::scroll, given the value render_position returned
scroll(s, rx) ==
    LET cy == s.cursor_position.y
        wx == s.window_size.x
        wy == s.window_size.y
        oy1 == IF cy < s.offset.y THEN cy ELSE s.offset.y
        downY == cy >= oy1 + wy
        oy2 == IF downY THEN cy - wy + 1 ELSE oy1
        ox1 == IF rx < s.offset.x THEN rx ELSE s.offset.x
        downX == rx >= ox1 + wx
        ox2 == IF downX THEN rx - wx + 1 ELSE ox1
        under == (downY /\ cy < wy) \/ (downX /\ rx < wx)
    IN [s EXCEPT !.render_cursor_position = Position(rx, s.render_cursor_position.y),
                 !.offset = Position(ox2, oy2),
                 !.underflow = under]

\* Editor::draw_rows: the slice render[offset.x..end] of a visible row is out
\* of range when offset.x lies beyond the end of that row's render
draw_rows_panics(s) ==
    \E i \in 0..(s.window_size.y - 1) :
        LET file_row == i + s.offset.y
        IN /\ file_row < Len(s.rows)
           /\ s.offset.x > Len(Render(s.rows[file_row + 1]))

\* Editor::draw_rows: what each line of the window gets, top to bottom: the
\* "~" placeholder or not, the welcome banner or not, and the bytes of text
draw_rows(s) ==
    [k \in 1..s.window_size.y |->
        LET i == k - 1
            n == Len(s.rows)
            file_row == i + s.offset.y
        IN IF file_row >= n
           THEN IF i >= n
                THEN [placeholder |-> TRUE,
                      banner |-> /\ n = 1
                                 /\ Len(s.rows[1]) = 0
                                 /\ i = s.window_size.y \div 3,
                      text |-> <<>>]
                ELSE [placeholder |-> TRUE, banner |-> FALSE, text |-> s.rows[i + 1]]
           ELSE LET render == Render(s.rows[file_row + 1])
                    rest == IF Len(render) >= s.offset.x
                            THEN Len(render) - s.offset.x ELSE 0
                    len == IF rest > s.window_size.x THEN s.window_size.x ELSE rest
                    end == s.offset.x + len
                IN [placeholder |-> FALSE, banner |-> FALSE,
                    text |-> SubSeq(render, s.offset.x + 1, end)]]

\* CursorTo(cursor_position.y - offset.y + 1, render_cursor_position.x - offset.x + 1)
cursor_to_underflows(s) ==
    \/ s.cursor_position.y < s.offset.y
    \/ s.render_cursor_position.x < s.offset.x

\* Editor::refresh_screen: the set of states it can end in
refresh_screen(s) ==
    IF s.panic THEN {s}
    ELSE LET cy == s.cursor_position.y
             rps == IF cy < Len(s.rows)
                    THEN RenderPositionOutcomes(s.rows[cy + 1], s.cursor_position.x)
                    ELSE {[panic |-> FALSE, rx |-> 0]}
         IN {IF rp.panic THEN Panic(s)
             ELSE LET t == scroll(s, rp.rx)
                  IN IF t.underflow THEN t
                     ELSE IF draw_rows_panics(t) THEN Panic(t)
                     ELSE IF cursor_to_underflows(t) THEN [t EXCEPT !.underflow = TRUE]
                     ELSE t
             : rp \in rps}

\* ---------------------------------------------------------------- editing
\* Editor::insert_row: Vec::insert panics when at > len
insert_row(s, at, row) ==
    IF at > Len(s.rows) THEN Panic(s)
    ELSE [s EXCEPT !.rows = SubSeq(s.rows, 1, at) \o <<row>> \o
                            SubSeq(s.rows, at + 1, Len(s.rows)),
                   !.is_dirty = TRUE]

\* insert_newline with the new row put at the cursor row, not below it
insert_newline_above(s) ==
    LET x == s.cursor_position.x
        y == s.cursor_position.y
        below(t) == IF t.panic THEN t
                    ELSE [t EXCEPT !.cursor_position = Position(0, y + 1)]
    IN IF y >= Len(s.rows) THEN {Panic(s)}
       ELSE LET row == s.rows[y + 1]
            IN IF Len(row) = 0 \/ x = Len(row)
               THEN {below(insert_row(s, y, <<>>))}
               ELSE LET left == RowSplitLeft(row, x)
                        r == RowSplitRight(row, x)
                        kept == [s EXCEPT !.rows[y + 1] = left]
                        done == IF Len(r) # 0 THEN insert_row(kept, y, r) ELSE kept
                    IN IF x > Len(row) THEN {Panic(s), below(done)} ELSE {below(done)}

\* insert_newline that opens an empty row below and drops the text right of
\* the cursor
insert_newline_drops_remainder(s) ==
    LET x == s.cursor_position.x
        y == s.cursor_position.y
        below(t) == IF t.panic THEN t
                    ELSE [t EXCEPT !.cursor_position = Position(0, y + 1)]
    IN IF y >= Len(s.rows) THEN {Panic(s)}
       ELSE LET row == s.rows[y + 1]
            IN IF Len(row) = 0 \/ x = Len(row)
               THEN {below(insert_row(s, y + 1, <<>>))}
               ELSE LET left == RowSplitLeft(row, x)
                        r == RowSplitRight(row, x)
                        kept == [s EXCEPT !.rows[y + 1] = left]
                        done == IF Len(r) # 0 THEN insert_row(kept, y + 1, <<>>) ELSE kept
                    IN IF x > Len(row) THEN {Panic(s), below(done)} ELSE {below(done)}

\* Editor::insert_newline
insert_newline(s) ==
    LET x == s.cursor_position.x
        y == s.cursor_position.y
        below(t) == IF t.panic THEN t
                    ELSE [t EXCEPT !.cursor_position = Position(0, y + 1)]
    IN IF y >= Len(s.rows) THEN {Panic(s)}
       ELSE LET row == s.rows[y + 1]
            IN IF Len(row) = 0 \/ x = Len(row)
               THEN {below(insert_row(s, y + 1, <<>>))}
               ELSE LET left == RowSplitLeft(row, x)
                        r == RowSplitRight(row, x)
                        kept == [s EXCEPT !.rows[y + 1] = left]
                        done == IF Len(r) # 0 THEN insert_row(kept, y + 1, r) ELSE kept
                    IN IF x > Len(row) THEN {Panic(s), below(done)} ELSE {below(done)}

\* Editor::insert_char
insert_char(s, c) ==
    LET x == s.cursor_position.x
        y == s.cursor_position.y
    IN IF y >= Len(s.rows) THEN {Panic(s)}
       ELSE {[s EXCEPT !.rows[y + 1] = RowInsertChar(s.rows[y + 1], c, x),
                       !.cursor_position = Position(x + 1, y),
                       !.render_cursor_position =
                           Position(s.render_cursor_position.x + 1,
                                    s.render_cursor_position.y),
                       !.is_dirty = TRUE]}

\* backspace with the cursor column read after the rows were joined
backspace_column_after_join(s) ==
    LET x == s.cursor_position.x
        y == s.cursor_position.y
    IN IF x >= 1
       THEN IF y >= Len(s.rows) THEN {Panic(s)}
            ELSE LET row == RowDeleteChar(s.rows[y + 1], x - 1)
                     t == [s EXCEPT !.rows[y + 1] = row,
                                    !.cursor_position = Position(x - 1, y)]
                 IN {IF rp.panic THEN Panic(t)
                     ELSE [t EXCEPT !.render_cursor_position =
                                        Position(rp.rx, s.render_cursor_position.y),
                                    !.is_dirty = TRUE]
                     : rp \in RenderPositionOutcomes(row, x - 1)}
       ELSE IF y = 0 THEN {s}
            ELSE IF y >= Len(s.rows) THEN {Panic(s)}
            ELSE LET mv == s.rows[y + 1]
                     removed == SubSeq(s.rows, 1, y) \o SubSeq(s.rows, y + 2, Len(s.rows))
                     prev == removed[y]
                 IN {[s EXCEPT !.rows = [removed EXCEPT ![y] = RowAppend(prev, mv)],
                               !.cursor_position = Position(Len(RowAppend(prev, mv)), y - 1),
                               !.is_dirty = TRUE]}

\* backspace that marks the buffer dirty even when it has nothing to delete
backspace_dirty_at_origin(s) ==
    LET x == s.cursor_position.x
        y == s.cursor_position.y
    IN IF x >= 1
       THEN IF y >= Len(s.rows) THEN {Panic(s)}
            ELSE LET row == RowDeleteChar(s.rows[y + 1], x - 1)
                     t == [s EXCEPT !.rows[y + 1] = row,
                                    !.cursor_position = Position(x - 1, y)]
                 IN {IF rp.panic THEN Panic(t)
                     ELSE [t EXCEPT !.render_cursor_position =
                                        Position(rp.rx, s.render_cursor_position.y),
                                    !.is_dirty = TRUE]
                     : rp \in RenderPositionOutcomes(row, x - 1)}
       ELSE IF y = 0 THEN {[s EXCEPT !.is_dirty = TRUE]}
            ELSE IF y >= Len(s.rows) THEN {Panic(s)}
            ELSE LET mv == s.rows[y + 1]
                     removed == SubSeq(s.rows, 1, y) \o SubSeq(s.rows, y + 2, Len(s.rows))
                     prev == removed[y]
                 IN {[s EXCEPT !.rows = [removed EXCEPT ![y] = RowAppend(prev, mv)],
                               !.cursor_position = Position(Len(prev), y - 1),
                               !.is_dirty = TRUE]}

\* Editor::backspace
backspace(s) ==
    LET x == s.cursor_position.x
        y == s.cursor_position.y
    IN IF x >= 1
       THEN IF y >= Len(s.rows) THEN {Panic(s)}
            ELSE LET row == RowDeleteChar(s.rows[y + 1], x - 1)
                     t == [s EXCEPT !.rows[y + 1] = row,
                                    !.cursor_position = Position(x - 1, y)]
                 IN {IF rp.panic THEN Panic(t)
                     ELSE [t EXCEPT !.render_cursor_position =
                                        Position(rp.rx, s.render_cursor_position.y),
                                    !.is_dirty = TRUE]
                     : rp \in RenderPositionOutcomes(row, x - 1)}
       ELSE IF y = 0 THEN {s}
            ELSE IF y >= Len(s.rows) THEN {Panic(s)}
            ELSE LET mv == s.rows[y + 1]
                     removed == SubSeq(s.rows, 1, y) \o SubSeq(s.rows, y + 2, Len(s.rows))
                     prev == removed[y]
                 IN {[s EXCEPT !.rows = [removed EXCEPT ![y] = RowAppend(prev, mv)],
                               !.cursor_position = Position(Len(prev), y - 1),
                               !.is_dirty = TRUE]}

\* process_keypress, PageUp arm
page_up(s) == {[s EXCEPT !.cursor_position.y = s.offset.y]}

\* process_keypress, PageDown arm
page_down(s) ==
    LET y == s.offset.y + s.window_size.y - 1
    IN {[s EXCEPT !.cursor_position.y = IF y > Len(s.rows) THEN Len(s.rows) ELSE y]}

\* process_keypress, End arm: rows[cursor_position.y] with y == rows.len()
end_key(s) ==
    IF s.cursor_position.y = Len(s.rows) THEN {Panic(s)} ELSE {s}

\* the push onto e_key_history that ends process_keypress; only last() is read
push_history(s, key) == IF s.panic THEN s ELSE [s EXCEPT !.e_key_history = <<key>>]

WARNING == "WARNING!! File has unsaved changes. Press Ctrl-Q again to quit."

\* process_keypress, Ctrl-Q arm: the value returned
quit_allowed(s) ==
    IF s.is_dirty
    THEN s.e_key_history # <<>> /\ s.e_key_history[Len(s.e_key_history)] = CtrlQ
    ELSE TRUE

\* ---------------------------------------------------------------- movement
\* move_cursor whose ArrowRight stops only beyond the last row, not on it
move_cursor_right_past_last(s, key) ==
    LET x == s.cursor_position.x
        y == s.cursor_position.y
        n == Len(s.rows)
        len(i) == Len(s.rows[i + 1])
        limit_x == IF n = 0 \/ y = n THEN 0 ELSE len(y)
        limit_y == IF n = 0 THEN 0 ELSE n - 1
        up == PosSub(s.cursor_position, Position(0, 1))
        above == IF y >= 1 THEN y - 1 ELSE 0
    IN IF n # 0 /\ y > n THEN Panic(s)
       ELSE IF key = ArrowLeft
       THEN IF x = 0
            THEN IF y > 0
                 THEN [s EXCEPT !.cursor_position = Position(len(y - 1), y - 1)]
                 ELSE s
            ELSE [s EXCEPT !.cursor_position = PosSub(s.cursor_position, Position(1, 0))]
       ELSE IF key = ArrowRight
       THEN IF y > limit_y /\ x >= limit_x THEN s
            ELSE IF x < limit_x
                 THEN [s EXCEPT !.cursor_position = Position(x + 1, y)]
                 ELSE [s EXCEPT !.cursor_position = Position(0, y + 1)]
       ELSE IF key = ArrowUp
       THEN IF n = y THEN [s EXCEPT !.cursor_position = up]
            ELSE IF x > len(above)
                 THEN [s EXCEPT !.cursor_position =
                                    PosSub(Position(len(above), y), Position(0, 1))]
                 ELSE [s EXCEPT !.cursor_position = up]
       ELSE IF key = ArrowDown
       THEN IF y < limit_y
            THEN [s EXCEPT !.cursor_position =
                               Position(IF x > len(y + 1) THEN len(y + 1) ELSE x, y + 1)]
            ELSE s
       ELSE s

\* Editor::move_cursor
move_cursor(s, key) ==
    LET x == s.cursor_position.x
        y == s.cursor_position.y
        n == Len(s.rows)
        len(i) == Len(s.rows[i + 1])
        limit_x == IF n = 0 \/ y = n THEN 0 ELSE len(y)
        limit_y == IF n = 0 THEN 0 ELSE n - 1
        up == PosSub(s.cursor_position, Position(0, 1))
        above == IF y >= 1 THEN y - 1 ELSE 0
    IN IF n # 0 /\ y > n THEN Panic(s)
       ELSE IF key = ArrowLeft
       THEN IF x = 0
            THEN IF y > 0
                 THEN [s EXCEPT !.cursor_position = Position(len(y - 1), y - 1)]
                 ELSE s
            ELSE [s EXCEPT !.cursor_position = PosSub(s.cursor_position, Position(1, 0))]
       ELSE IF key = ArrowRight
       THEN IF y >= limit_y /\ x >= limit_x THEN s
            ELSE IF x < limit_x
                 THEN [s EXCEPT !.cursor_position = Position(x + 1, y)]
                 ELSE [s EXCEPT !.cursor_position = Position(0, y + 1)]
       ELSE IF key = ArrowUp
       THEN IF n = y THEN [s EXCEPT !.cursor_position = up]
            ELSE IF x > len(above)
                 THEN [s EXCEPT !.cursor_position =
                                    PosSub(Position(len(above), y), Position(0, 1))]
                 ELSE [s EXCEPT !.cursor_position = up]
       ELSE IF key = ArrowDown
       THEN IF y < limit_y
            THEN [s EXCEPT !.cursor_position =
                               Position(IF x > len(y + 1) THEN len(y + 1) ELSE x, y + 1)]
            ELSE s
       ELSE s

\* ---------------------------------------------------------------- saving
\* Editor::save from File::create on: the states it can end in, each with the
\* file it created and wrote.  File::create and write_all can fail.
save_write(s) ==
    LET n == Len(s.rows)
        name == s.current_file_name
        pushed(k) == [i \in 1..n |-> IF i <= k THEN Append(s.rows[i], LF) ELSE s.rows[i]]
        createErr == [state |-> [s EXCEPT !.status_message = Msg("create failed", <<>>)],
                      written |-> NoWrite]
        writeErr(k) ==
            [state |-> [s EXCEPT !.rows = pushed(k),
                                 !.status_message = Msg("write failed", <<>>)],
             written |-> FileWrite(name, Flatten(SubSeq(pushed(k), 1, k - 1)))]
        ok == [state |-> [s EXCEPT !.rows = pushed(n),
                                   !.is_dirty = FALSE,
                                   !.status_message = Msg("Written to disk", <<>>)],
               written |-> FileWrite(name, Flatten(pushed(n)))]
    IN IF name = <<>> THEN {createErr}
       ELSE {createErr, ok} \cup {writeErr(k) : k \in 1..n}

\* ---------------------------------------------------------------- the loop
\* what last_cmd records of a key given to process_keypress
Cmd(key) == IF key = CtrlQ THEN "Quit" ELSE "other"

\* the fields of the editor after a step that ended in state r
Commit(r, nextpc) ==
    /\ pc' = IF r.panic THEN "panic" ELSE IF r.underflow THEN "underflow" ELSE nextpc
    /\ rows' = r.rows
    /\ cursor_position' = r.cursor_position
    /\ render_cursor_position' = r.render_cursor_position
    /\ offset' = r.offset
    /\ window_size' = r.window_size
    /\ status_message' = r.status_message
    /\ current_file_name' = r.current_file_name
    /\ is_dirty' = r.is_dirty
    /\ e_key_history' = r.e_key_history

\* one turn of the loop for a key given to process_keypress that returns
\* false: the arm's outcome, the push onto the history, then refresh_screen
KeyStep(key, outs) ==
    /\ pc = "input"
    /\ \E o \in outs : \E r \in refresh_screen(push_history(o, key)) :
           Commit(r, "input")
    /\ ret_buf' = <<>>
    /\ written' = NoWrite
    /\ last_cmd' = Cmd(key)

\* Editor::new: the state main starts from, for every window size
Init ==
    /\ pc = "start"
    /\ rows = <<>>
    /\ cursor_position = Position(0, 0)
    /\ render_cursor_position = Position(0, 0)
    /\ offset = Position(0, 0)
    /\ window_size \in {Position(w, w) : w \in 1..MaxWin}
    /\ status_message = Msg("", <<>>)
    /\ current_file_name = NO_NAME
    /\ is_dirty = FALSE
    /\ e_key_history = <<>>
    /\ ret_buf = <<>>
    /\ written = NoWrite
    /\ last_cmd = "none"

\* Editor::open_file on a file that opens: one row per line
open_file(s, lines) ==
    [s EXCEPT !.current_file_name = FileArg, !.rows = lines, !.is_dirty = FALSE]

\* Editor::open_empty
open_empty(s) == insert_row(s, 0, <<>>)

\* main with a file argument that can be opened
OpenFile ==
    /\ pc = "start"
    /\ \E f \in InputFiles : Commit(open_file(Self, f), "input")
    /\ UNCHANGED <<ret_buf, written, last_cmd>>

\* main with a file argument that cannot be opened: unwrap panics
OpenFileFails ==
    /\ pc = "start"
    /\ pc' = "panic"
    /\ UNCHANGED <<rows, cursor_position, render_cursor_position, offset, window_size,
                   status_message, current_file_name, is_dirty, e_key_history,
                   ret_buf, written, last_cmd>>

\* main without a file argument: nothing is opened before the loop
NoArgument ==
    /\ pc = "start"
    /\ Commit(Self, "input")
    /\ UNCHANGED <<ret_buf, written, last_cmd>>

\* a start through Editor::open_empty
OpenEmpty ==
    /\ pc = "start"
    /\ Commit(open_empty(Self), "input")
    /\ UNCHANGED <<ret_buf, written, last_cmd>>

PressEnter ==
    /\ Len(rows) < MaxRows
    /\ KeyStep(Enter, insert_newline(Self))

PressChar ==
    /\ SumLen(rows) < MaxChars
    /\ \E c \in Chars : KeyStep(Key("Char", c), insert_char(Self, c))

PressBackSpace == KeyStep(BackSpace, backspace(Self))

PressPageUp == KeyStep(PageUp, page_up(Self))

PressPageDown == KeyStep(PageDown, page_down(Self))

PressEnd == KeyStep(End, end_key(Self))

\* Ctrl-L and the keys process_keypress has no arm for
PressOther == \E key \in {ArrowUp, CtrlL} : KeyStep(key, {Self})

\* Null returns false before the push onto the history
PressNull ==
    /\ pc = "input"
    /\ \E r \in refresh_screen(Self) : Commit(r, "input")
    /\ ret_buf' = <<>>
    /\ written' = NoWrite
    /\ UNCHANGED last_cmd

\* Ctrl-Q refused: the warning, the push, false
QuitRefused ==
    /\ ~quit_allowed(Self)
    /\ KeyStep(CtrlQ, {[Self EXCEPT !.status_message = Msg(WARNING, <<>>)]})

\* Ctrl-Q honoured: process_keypress returns true and the loop ends
QuitAllowed ==
    /\ pc = "input"
    /\ quit_allowed(Self)
    /\ Commit(push_history(Self, CtrlQ), "exit")
    /\ ret_buf' = <<>>
    /\ written' = NoWrite
    /\ last_cmd' = Cmd(CtrlQ)

\* Ctrl-S with a file name: save writes at once
SaveNamed ==
    /\ pc = "input"
    /\ current_file_name # NO_NAME
    /\ SumLen(rows) + Len(rows) <= MaxChars
    /\ \E o \in save_write(Self) :
         /\ \E r \in refresh_screen(push_history(o.state, CtrlS)) : Commit(r, "input")
         /\ written' = o.written
    /\ ret_buf' = <<>>
    /\ last_cmd' = Cmd(CtrlS)

\* Ctrl-S without a file name: save_prompt starts and waits for its first byte
SavePromptStart ==
    /\ pc = "input"
    /\ current_file_name = NO_NAME
    /\ SumLen(rows) + Len(rows) <= MaxChars
    /\ Commit([Self EXCEPT !.status_message = Msg("Save as: ", <<>>)], "prompt")
    /\ ret_buf' = <<>>
    /\ written' = NoWrite
    /\ last_cmd' = Cmd(CtrlS)

\* save_prompt, a byte that does not end the prompt: ret_buf, the status
\* message echoing it, refresh_screen
PromptEcho(buf) ==
    /\ pc = "prompt"
    /\ \E r \in refresh_screen([Self EXCEPT !.status_message = Msg("Save as: {}", buf)]) :
           Commit(r, "prompt")
    /\ ret_buf' = buf
    /\ UNCHANGED <<written, last_cmd>>

PromptChar ==
    /\ Len(ret_buf) < MaxName
    /\ \E c \in NameChars : PromptEcho(Append(ret_buf, c))

PromptBackspace ==
    PromptEcho(SubSeq(ret_buf, 1, IF Len(ret_buf) >= 1 THEN Len(ret_buf) - 1 ELSE 0))

\* a byte outside the printable range, or no byte read
PromptIgnored == PromptEcho(ret_buf)

\* Escape taken as an accepted, empty answer: save goes on to create the file
PromptCancelGoesOn ==
    /\ pc = "prompt"
    /\ \E o \in save_write(Self) :
         /\ \E r \in refresh_screen(push_history(o.state, CtrlS)) : Commit(r, "input")
         /\ written' = o.written
    /\ ret_buf' = <<>>
    /\ UNCHANGED last_cmd

\* Escape: save returns the error, process_keypress reports it
PromptCancel ==
    /\ pc = "prompt"
    /\ \E r \in refresh_screen(push_history(
                  [Self EXCEPT !.status_message = Msg("user canceled", <<>>)], CtrlS)) :
           Commit(r, "input")
    /\ ret_buf' = <<>>
    /\ UNCHANGED <<written, last_cmd>>

\* Return: the collected bytes become the file name, then save writes
PromptAccept ==
    /\ pc = "prompt"
    /\ \E o \in save_write([Self EXCEPT !.current_file_name = ret_buf]) :
         /\ \E r \in refresh_screen(push_history(o.state, CtrlS)) : Commit(r, "input")
         /\ written' = o.written
    /\ ret_buf' = <<>>
    /\ UNCHANGED last_cmd

\* one turn of the loop for a key given to move_cursor
MoveStep(key) ==
    /\ pc = "input"
    /\ \E r \in refresh_screen(move_cursor(Self, key)) : Commit(r, "input")
    /\ last_cmd' = "move"
    /\ ret_buf' = <<>>
    /\ written' = NoWrite

MoveCursor == \E key \in ArrowKeys : MoveStep(key)

Next ==
    \/ OpenFile \/ OpenFileFails \/ NoArgument \/ OpenEmpty
    \/ PressEnter \/ PressChar \/ PressBackSpace
    \/ PressPageUp \/ PressPageDown \/ PressEnd \/ PressOther \/ PressNull
    \/ QuitRefused \/ QuitAllowed
    \/ SaveNamed \/ SavePromptStart
    \/ PromptChar \/ PromptBackspace \/ PromptIgnored \/ PromptCancel \/ PromptAccept
    \/ MoveCursor

Spec == Init /\ [][Next]_vars

\* ---------------------------------------------------------------- properties
\* the loop is running: startup is over and no panic has ended the program
Running == pc \in {"input", "prompt", "exit"}

CurrentRowLen == Len(rows[cursor_position.y + 1])

CursorInRange ==
    /\ cursor_position.y <= Len(rows)
    /\ cursor_position.y < Len(rows) => cursor_position.x <= CurrentRowLen
    /\ cursor_position.y = Len(rows) => cursor_position.x = 0

\* C1: after any sequence of process_keypress and move_cursor commands the
\* cursor row is in [0, rows.len()], the cursor column is at most the length of
\* the cursor's row, and the column is 0 on the row past the last one.
C1_CursorInRange == Running => CursorInRange

\* C2: once startup has finished the buffer has at least one row, and a start
\* without a file argument leaves one empty row and the unnamed file name.
C2_BufferNeverEmpty ==
    /\ Running => Len(rows) >= 1
    /\ (Running /\ current_file_name = NO_NAME /\ last_cmd = "none")
           => rows = << <<>> >>

\* a step that applies Char, Enter, BackSpace or End
EditOrEnd == PressChar \/ PressEnter \/ PressBackSpace \/ PressEnd

\* C3: whenever Char, Enter, BackSpace or End is dispatched on a buffer that
\* has rows, the cursor is on an existing row and at most at its end, so no
\* command indexes rows outside [0, rows.len()).
C3_DispatchInRange ==
    [][(EditOrEnd /\ Len(rows) >= 1)
         => (cursor_position.y < Len(rows) /\ cursor_position.x <= CurrentRowLen)]_vars

\* C4: after every refresh_screen the cursor row lies in
\* [offset.y, offset.y + window_size.y), the render column of the cursor in
\* [offset.x, offset.x + window_size.x), and neither the new offset nor the
\* terminal cursor coordinates were computed by subtracting below zero.
C4_CursorVisible ==
    /\ pc # "underflow"
    /\ pc \in {"input", "prompt"} =>
         /\ offset.y <= cursor_position.y
         /\ cursor_position.y < offset.y + window_size.y
         /\ offset.x <= render_cursor_position.x
         /\ render_cursor_position.x < offset.x + window_size.x

\* C4 witness: a frame drawn after the window scrolled both ways
C4_Witness ==
    /\ pc = "input"
    /\ last_cmd # "none"
    /\ offset.y > 0
    /\ offset.x > 0
    /\ cursor_position.y = offset.y + window_size.y - 1
    /\ render_cursor_position.x = offset.x + window_size.x - 1

\* a step that applies Ctrl-Q
QuitStep == QuitAllowed \/ QuitRefused

\* C5: with unsaved changes a Quit is honoured exactly when the command
\* applied immediately before it was Quit too; a refused Quit leaves the
\* editor open with the warning as status message.
C5_QuitTwiceInARow ==
    [][(QuitStep /\ is_dirty)
         => /\ (pc' = "exit") <=> (last_cmd = "Quit")
            /\ pc' # "exit" => status_message' = Msg(WARNING, <<>>)]_vars

\* a step in which save ran to its end and returned Ok
SaveSucceeds ==
    /\ SaveNamed \/ PromptAccept
    /\ status_message' = Msg("Written to disk", <<>>)

\* a step in which save returned an error
SaveFails ==
    /\ SaveNamed \/ PromptAccept \/ PromptCancel
    /\ status_message' # Msg("Written to disk", <<>>)

\* C6: is_dirty is false right after open_file, open_empty and a successful
\* save, true after every Char, Enter and BackSpace that changed the buffer,
\* and unchanged by cursor movement, PageUp, PageDown, End, a failed save
\* and Quit.
C6_DirtyTracksEdits ==
    [][/\ (OpenFile \/ OpenEmpty \/ SaveSucceeds) => ~is_dirty'
       /\ ((PressChar \/ PressEnter \/ PressBackSpace) /\ rows' # rows) => is_dirty'
       /\ (MoveCursor \/ PressPageUp \/ PressPageDown \/ PressEnd \/ SaveFails \/ QuitStep)
            => is_dirty' = is_dirty]_vars

RECURSIVE UserText(_)
\* the bytes of a row that came from the file or from Char keys
UserText(chars) ==
    IF chars = <<>> THEN <<>>
    ELSE IF Head(chars) = LF THEN UserText(Tail(chars))
    ELSE <<Head(chars)>> \o UserText(Tail(chars))

\* the file the design asks of a save: every row's text and one newline
ExpectedFile(rs) == Flatten([i \in 1..Len(rs) |-> Append(UserText(rs[i]), LF)])

\* C7: every successful save, a second or later one included, writes the
\* rows' text in row order, each followed by exactly one newline byte.
C7_SaveWritesRows ==
    [][SaveSucceeds => (written'.done /\ written'.content = ExpectedFile(rows))]_vars

\* a step of the save prompt that does not accept a name
PromptUnaccepted ==
    SavePromptStart \/ PromptChar \/ PromptBackspace \/ PromptIgnored \/ PromptCancel

\* C8: from Ctrl-S without a file name to Escape no file is created or
\* written and rows, cursor, dirty flag and the unnamed file name stay as they
\* were; the cancel is reported as "user canceled" without exit; an accepted
\* name is the file name of whatever file is created.
C8_PromptCancelChangesNothing ==
    [][/\ PromptUnaccepted =>
            /\ ~written'.done
            /\ rows' = rows
            /\ cursor_position' = cursor_position
            /\ is_dirty' = is_dirty
            /\ current_file_name' = NO_NAME
            /\ pc' # "exit"
       /\ PromptCancel => status_message' = Msg("user canceled", <<>>)
       /\ PromptAccept =>
            /\ current_file_name' = ret_buf
            /\ written'.done => written'.name = ret_buf]_vars

\* C8 witness: an edited, unnamed buffer right after the prompt was cancelled
C8_Witness ==
    /\ pc = "input"
    /\ status_message = Msg("user canceled", <<>>)
    /\ e_key_history = <<CtrlS>>
    /\ current_file_name = NO_NAME
    /\ is_dirty
    /\ SumLen(rows) > 0

\* rs with the rows at index i (from 0) replaced by the rows of mid
Splice(rs, i, k, mid) == SubSeq(rs, 1, i) \o mid \o SubSeq(rs, i + k + 1, Len(rs))

\* C9: Enter at (x, y) on an existing row, x at most the row's length,
\* replaces row y by chars[0..x) and chars[x..), leaves the other rows as they
\* were and puts the cursor at (0, y + 1).
C9_EnterSplitsRow ==
    [][(PressEnter /\ cursor_position.y < Len(rows) /\ cursor_position.x <= CurrentRowLen)
         => LET x == cursor_position.x
                y == cursor_position.y
                row == rows[y + 1]
            IN /\ rows' = Splice(rows, y, 1, <<SubSeq(row, 1, x), SubSeq(row, x + 1, Len(row))>>)
               /\ Len(rows') = Len(rows) + 1
               /\ cursor_position' = Position(0, y + 1)
               /\ pc' # "panic"]_vars

\* C9 witness: Enter has just split a row between two of its bytes, with a
\* row above it
C9_Witness ==
    /\ pc = "input"
    /\ e_key_history = <<Enter>>
    /\ cursor_position.x = 0
    /\ cursor_position.y = 2
    /\ Len(rows) = 3
    /\ Len(rows[2]) > 0
    /\ Len(rows[3]) > 0

\* C10: BackSpace at (0, y), 0 < y < rows.len(), removes row y, appends its
\* chars to row y - 1, leaves the other rows as they were and puts the cursor
\* at (old length of row y - 1, y - 1).
C10_BackSpaceJoinsRows ==
    [][(PressBackSpace /\ cursor_position.x = 0 /\ cursor_position.y > 0
          /\ cursor_position.y < Len(rows))
         => LET y == cursor_position.y
            IN /\ rows' = Splice(rows, y - 1, 2, <<rows[y] \o rows[y + 1]>>)
               /\ Len(rows') = Len(rows) - 1
               /\ cursor_position' = Position(Len(rows[y]), y - 1)]_vars

\* C10 witness: BackSpace has just joined two rows that both had text
C10_Witness ==
    /\ pc = "input"
    /\ e_key_history = <<BackSpace>>
    /\ Len(rows) = 1
    /\ Len(rows[1]) = 2
    /\ cursor_position = Position(1, 0)
    /\ is_dirty

\* C11: BackSpace with the cursor at (0, 0) changes neither rows nor the
\* cursor nor the dirty flag, whatever the buffer holds.
C11_BackSpaceAtOriginIsNoOp ==
    [][(PressBackSpace /\ cursor_position = Position(0, 0))
         => /\ rows' = rows
            /\ cursor_position' = cursor_position
            /\ is_dirty' = is_dirty
            /\ pc' # "panic"]_vars

\* C11 witness: BackSpace was just applied at (0, 0) of a clean buffer with text
C11_Witness ==
    /\ pc = "input"
    /\ e_key_history = <<BackSpace>>
    /\ cursor_position = Position(0, 0)
    /\ ~is_dirty
    /\ SumLen(rows) > 0

\* C12: the Null command and a command process_keypress has no action for
\* are ignored: no exit, and rows, cursor, dirty flag, status message and
\* command history stay as they were.
C12_UnknownCommandIgnored ==
    [][(PressNull \/ PressOther)
         => /\ pc' # "exit"
            /\ rows' = rows
            /\ cursor_position' = cursor_position
            /\ is_dirty' = is_dirty
            /\ status_message' = status_message
            /\ e_key_history' = e_key_history]_vars

\* C13: horizontal movement wraps across lines.  ArrowLeft at column 0 of a
\* row y > 0 goes to the end of row y - 1 and is a no-op at (0, 0); ArrowRight
\* at the end of a row y < rows.len() goes to (0, y + 1), the row past the last
\* one included; ArrowRight on the row past the last one is a no-op.
C13_HorizontalWrap ==
    [][/\ (MoveStep(ArrowLeft) /\ cursor_position.x = 0 /\ cursor_position.y > 0
                               /\ cursor_position.y <= Len(rows))
            => cursor_position' =
                   Position(Len(rows[cursor_position.y]), cursor_position.y - 1)
       /\ (MoveStep(ArrowLeft) /\ cursor_position = Position(0, 0))
            => cursor_position' = cursor_position
       /\ (MoveStep(ArrowRight) /\ cursor_position.y < Len(rows)
                                /\ cursor_position.x = CurrentRowLen)
            => cursor_position' = Position(0, cursor_position.y + 1)
       /\ (MoveStep(ArrowRight) /\ cursor_position.y = Len(rows))
            => cursor_position' = cursor_position]_vars

\* C14: vertical movement clamps.  ArrowUp from a row y > 0 goes to row y - 1
\* with x = min(x, len(rows[y - 1])) and leaves the cursor alone at row 0;
\* ArrowDown goes to row y + 1 with x = min(x, len(rows[y + 1])) when there
\* is a row below and otherwise never takes y past rows.len(); movement never
\* changes rows.
C14_VerticalClamp ==
    [][/\ (MoveStep(ArrowUp) /\ cursor_position.y > 0 /\ cursor_position.y <= Len(rows))
            => cursor_position' =
                   Position(Min(cursor_position.x, Len(rows[cursor_position.y])),
                            cursor_position.y - 1)
       /\ (MoveStep(ArrowUp) /\ cursor_position.y = 0)
            => cursor_position' = cursor_position
       /\ (MoveStep(ArrowDown) /\ cursor_position.y + 1 < Len(rows))
            => cursor_position' =
                   Position(Min(cursor_position.x, Len(rows[cursor_position.y + 2])),
                            cursor_position.y + 1)
       /\ MoveStep(ArrowDown) => cursor_position'.y <= Len(rows)
       /\ MoveCursor => rows' = rows]_vars

C16_EndMovesToEndOfLine ==
    [][/\ (PressEnd /\ cursor_position.y < Len(rows))
            => /\ cursor_position' = Position(CurrentRowLen, cursor_position.y)
               /\ rows' = rows
               /\ is_dirty' = is_dirty
       /\ (PressEnd /\ cursor_position.y = Len(rows))
            => /\ cursor_position' = cursor_position
               /\ rows' = rows
               /\ pc' # "panic"]_vars

\* C17: in every frame drawn, a window line whose file row i + offset.y is at
\* or past rows.len() holds only the placeholder (and the welcome banner only
\* when the buffer is one empty row and i = window_size.y / 3) and no row's
\* text; a window line whose file row exists holds exactly that row's render
\* from offset.x on, at most window_size.x bytes of it.
C17_FrameShowsRowsInPlace ==
    pc \in {"input", "prompt"} =>
        \A i \in 0..(window_size.y - 1) :
            LET line == draw_rows(Self)[i + 1]
                file_row == i + offset.y
            IN IF file_row >= Len(rows)
               THEN /\ line.placeholder
                    /\ line.text = <<>>
                    /\ line.banner =>
                           /\ Len(rows) = 1
                           /\ rows[1] = <<>>
                           /\ i = window_size.y \div 3
               ELSE LET render == Render(rows[file_row + 1])
                    IN /\ ~line.placeholder
                       /\ ~line.banner
                       /\ Len(line.text) <= window_size.x
                       /\ line.text = [j \in 1..Min(window_size.x, Len(render) - offset.x)
                                          |-> render[offset.x + j]]

\* C18: Char(c) at (x, y) on an existing row inserts c at column x of row y
\* only, moves the cursor to (x + 1, y) and marks the buffer dirty; BackSpace
\* right after it restores every row's chars and the cursor.
C18_CharThenBackSpaceIsIdentity ==
    (pc = "input" /\ cursor_position.y < Len(rows)) =>
        \A c \in Chars : \A o \in insert_char(Self, c) :
            LET x == cursor_position.x
                y == cursor_position.y
            IN /\ ~o.panic
               /\ x <= Len(rows[y + 1])
               /\ o.rows = [rows EXCEPT ![y + 1] =
                               SubSeq(@, 1, x) \o <<c>> \o SubSeq(@, x + 1, Len(@))]
               /\ o.cursor_position = Position(x + 1, y)
               /\ o.is_dirty
               /\ \A b \in backspace(o) :
                      /\ ~b.panic
                      /\ b.rows = rows
                      /\ b.cursor_position = cursor_position

\* C19: saving does not modify the document: after a save, successful or
\* failed at any point, every row's chars, the number of rows and the cursor
\* are what they were before it.
C19_SaveLeavesDocument ==
    [][(SaveNamed \/ PromptAccept \/ PromptCancel)
         => /\ rows' = rows
            /\ cursor_position' = cursor_position]_vars

\* C20: Enter followed at once by BackSpace is the identity on the document:
\* from every cursor (x, y) with y < rows.len() and x <= len(rows[y]), column
\* 0, the end of the line and an empty row included, the rows' chars and the
\* cursor after the two commands are what they were before the Enter.
C20_EnterThenBackSpaceIsIdentity ==
    (/\ pc = "input"
     /\ cursor_position.y < Len(rows)
     /\ cursor_position.x <= CurrentRowLen) =>
        \A o \in insert_newline(Self) :
            /\ ~o.panic
            /\ \A r \in refresh_screen(push_history(o, Enter)) :
                   /\ ~r.panic /\ ~r.underflow
                   /\ \A b \in backspace(r) :
                          /\ ~b.panic
                          /\ b.rows = rows
                          /\ b.cursor_position = cursor_position

\* C20 witness: a cursor inside a row's text, where Enter splits the row in
\* two and the BackSpace after it joins the halves again
C20_Witness ==
    /\ pc = "input"
    /\ Len(rows) < MaxRows
    /\ cursor_position.y < Len(rows)
    /\ cursor_position.x > 0
    /\ cursor_position.x < CurrentRowLen
    /\ \E o \in insert_newline(Self) :
           /\ Len(o.rows) = Len(rows) + 1
           /\ o.rows[cursor_position.y + 2] # <<>>
           /\ \E r \in refresh_screen(push_history(o, Enter)) :
                  \E b \in backspace(r) : b.rows = rows /\ b.is_dirty

=============================================================================
